---- MODULE Spec2Model ----
(***************************************************************************)
(* Model of src/main.py: one Streamlit render of main() for a ticker, the  *)
(* FinancialAnalyzer it builds, the two report composers and the download  *)
(* link.  A render is a linear sequence of blocking calls; pc is the       *)
(* position of the script inside main().                                   *)
(***************************************************************************)
EXTENDS Integers, Sequences, FiniteSets, TLC

VARIABLES
    pc,               \* position of the script in main()
    ticker,           \* main: ticker / FinancialAnalyzer.ticker (upper-cased)
    income_stmt,      \* FinancialAnalyzer.income_stmt
    balance_sheet,    \* FinancialAnalyzer.balance_sheet
    cash_flow,        \* FinancialAnalyzer.cash_flow
    financial_ratios, \* FinancialAnalyzer.financial_ratios (dict)
    messages,         \* st.error / st.warning / st.info / st.success calls, in order
    missing_data,     \* calculate_financial_ratios: the local list when the method ends
    warned,           \* the missing_data list joined into the st.warning, <<>> if none
    calls,            \* functions and methods the render has called, in order
    api_requests,     \* requests sent to client.chat.completions.create, in order
    api_responses,    \* how the API ended each request: "raised" or "answered"
    report,           \* main: the local `report`; <<>> is None, <<r>> a string r
    shown_report,     \* the text given to st.write(report); <<>> if not rendered
    download_link     \* the anchor given to st.markdown; <<>> if not rendered

vars == << pc, ticker, income_stmt, balance_sheet, cash_flow, financial_ratios, messages,
           missing_data, warned, calls, api_requests, api_responses, report,
           shown_report, download_link >>

----------------------------------------------------------------------------
(* Bounds of the model *)

\* statement cells hold the numbers 0..MaxVal
MaxVal == 1
\* every statement has NumPeriods columns, most recent first
NumPeriods == 2

Values == 0..MaxVal

----------------------------------------------------------------------------
(* Strings are sequences of characters; the ticker alphabet is small *)

TickerInputs == { <<>>, <<"a", "a", "p", "l">>, <<"A", "A", "P", "L">> }

\* str.upper() on the ticker alphabet
UpperChar(c) ==
    CASE c = "a" -> "A"
      [] c = "p" -> "P"
      [] c = "l" -> "L"
      [] OTHER   -> c

Upper(s) == [i \in 1..Len(s) |-> UpperChar(s[i])]

----------------------------------------------------------------------------
(* Financial statements: a DataFrame is its dtype and its rows; a row maps *)
(* a line-item label to the values of the periods, most recent first.      *)

IncomeLabels == {"Gross Profit", "Total Revenue"}
BalanceLabels == {"Total Current Assets", "Total Current Liabilities",
                  "Total Liab", "Total Stockholder Equity"}

\* float64 frames hold numpy scalars, object frames hold Python numbers
Dtypes == {"float64", "object"}

NoneFrame == [dtype |-> "None", rows |-> <<>>]

\* the cash-flow statement of the provider; none of its rows is ever read
CashFlowFrame == [dtype |-> "float64", rows |-> <<>>]

\* a cell of an object frame may hold None instead of a number
NoneCell == 0 - 1

CellValues(dtype) == IF dtype = "object" THEN Values \cup {NoneCell} ELSE Values

\* the value of an earlier period differs from the most recent one
EarlierValue(v, i) == IF v = NoneCell THEN v ELSE v + i - 1

PeriodRow(v) == [i \in 1..NumPeriods |-> EarlierValue(v, i)]

\* the frames the data provider can return over a set of labels: any subset
\* of the labels is present (none of them for an unknown ticker)
Frames(labels) ==
    UNION { { [dtype |-> d, rows |-> [l \in present |-> PeriodRow(f[l])]] :
                f \in [present -> CellValues(d)] } :
            present \in SUBSET labels, d \in Dtypes }

----------------------------------------------------------------------------
(* Numbers: the quotient of two cell values *)

RECURSIVE Gcd(_, _)
Gcd(a, b) == IF b = 0 THEN a ELSE Gcd(b, a % b)

\* the exact quotient n / d (d # 0) in lowest terms
Quotient(n, d) == [kind |-> "finite", num |-> n \div Gcd(n, d), den |-> d \div Gcd(n, d)]

Inf == [kind |-> "inf", num |-> 1, den |-> 0]
NaN == [kind |-> "nan", num |-> 0, den |-> 0]
NoValue == [kind |-> "none", num |-> 0, den |-> 0]

\* n / d as Python evaluates it: None is no operand of / (TypeError), numpy
\* scalars divide by zero to inf or nan (with a RuntimeWarning), Python
\* numbers raise ZeroDivisionError
TrueDivide(n, d, dtype) ==
    IF n = NoneCell \/ d = NoneCell THEN [exc |-> "TypeError", value |-> NoValue]
    ELSE IF d # 0 THEN [exc |-> "none", value |-> Quotient(n, d)]
    ELSE IF dtype = "object" THEN [exc |-> "ZeroDivisionError", value |-> NoValue]
    ELSE [exc |-> "none", value |-> IF n = 0 THEN NaN ELSE Inf]

----------------------------------------------------------------------------
(* FinancialAnalyzer.calculate_financial_ratios *)

GrossMargin == "Gross Margin"
CurrentRatio == "Current Ratio"
DebtToEquity == "Debt-to-Equity Ratio"

\* the three ratio blocks in source order: name, statement, numerator row,
\* denominator row
RatioBlocks ==
    << [name |-> GrossMargin, stmt |-> "income_stmt",
        num |-> "Gross Profit", den |-> "Total Revenue"],
       [name |-> CurrentRatio, stmt |-> "balance_sheet",
        num |-> "Total Current Assets", den |-> "Total Current Liabilities"],
       [name |-> DebtToEquity, stmt |-> "balance_sheet",
        num |-> "Total Liab", den |-> "Total Stockholder Equity"] >>

RatioNames == { RatioBlocks[i].name : i \in 1..Len(RatioBlocks) }

\* a lookup that reads the second period, .iloc[1]
LocIloc1(frame, label) ==
    IF label \in DOMAIN frame.rows
    THEN [exc |-> "none", value |-> frame.rows[label][2]]
    ELSE [exc |-> "KeyError", value |-> 0]

\* frame.loc[label].iloc[0]: KeyError when the label is no row of the frame
LocIloc0(frame, label) ==
    IF label \in DOMAIN frame.rows
    THEN [exc |-> "none", value |-> frame.rows[label][1]]
    ELSE [exc |-> "KeyError", value |-> 0]

\* the body of one inner try: both lookups, then the division
RatioBody(frame, block) ==
    LET n == LocIloc0(frame, block.num)
        d == LocIloc0(frame, block.den)
    IN  IF n.exc # "none" THEN [exc |-> n.exc, value |-> NoValue]
        ELSE IF d.exc # "none" THEN [exc |-> d.exc, value |-> NoValue]
        ELSE TrueDivide(n.value, d.value, frame.dtype)

\* `except KeyError` of the inner try blocks
InnerHandlerCatches(exc) == exc = "KeyError"

\* an outer handler that names the lookup and arithmetic errors only
OuterHandlerCatchesSome(exc) == exc \in {"KeyError", "ZeroDivisionError"}

\* `except Exception` of the outer try block
OuterHandlerCatches(exc) == TRUE

\* dict item assignment: d[k] = v
SetItem(d, k, v) == [x \in (DOMAIN d) \cup {k} |-> IF x = k THEN v ELSE d[x]]

\* the state of the method while it runs: the dict, the local missing_data,
\* and the exception (if any) that left the inner try blocks
CalcStart(ratios) == [ratios |-> ratios, missing_data |-> <<>>, raised |-> "none"]

\* one inner try/except block on analyzer frames inc (income_stmt) and bal
\* (balance_sheet); skipped once an exception is propagating
CalcBlock(st, inc, bal, block) ==
    IF st.raised # "none" THEN st
    ELSE LET frame == IF block.stmt = "income_stmt" THEN inc ELSE bal
             r == RatioBody(frame, block)
         IN  IF r.exc = "none"
             THEN [st EXCEPT !.ratios = SetItem(st.ratios, block.name, r.value)]
             ELSE IF InnerHandlerCatches(r.exc)
             THEN [st EXCEPT !.missing_data = Append(st.missing_data, block.name)]
             ELSE [st EXCEPT !.raised = r.exc]

\* the blocks from the i-th on, run in order from state st (each intermediate
\* state is bound once, as an element of a singleton)
RECURSIVE CalcBlocks(_, _, _, _)
CalcBlocks(st, inc, bal, i) ==
    IF i > Len(RatioBlocks) THEN st
    ELSE CHOOSE end \in { CalcBlocks(next, inc, bal, i + 1) :
                          next \in { CalcBlock(st, inc, bal, RatioBlocks[i]) } } : TRUE

\* the whole method: the new dict, the st.warning list, the st.error of the
\* outer handler, and the exception that leaves the method (if any)
calculate_financial_ratios(ratios, inc, bal) ==
    LET st == CHOOSE end \in { CalcBlocks(CalcStart(ratios), inc, bal, 1) } : TRUE
    IN  [ ratios  |-> st.ratios,
          missing_data |-> st.missing_data,
          warning |-> IF st.raised = "none" THEN st.missing_data ELSE <<>>,
          error   |-> st.raised # "none" /\ OuterHandlerCatches(st.raised),
          propagated |-> IF st.raised # "none" /\ ~OuterHandlerCatches(st.raised)
                         THEN st.raised ELSE "none" ]

----------------------------------------------------------------------------
(* Report text: a str is a sequence of code points *)

Space == 32

\* the texts the completion API answers with: empty, blank, one character of
\* one, two and three UTF-8 bytes ("A", e-acute, the euro sign), and texts
\* with blanks around and inside
Contents ==
    { <<>>, << Space >>, << 65 >>, << 233 >>, << 8364 >>,
      << Space, 65, 233, Space >>, << 65, Space, 233 >> }

RECURSIVE LStrip(_)
LStrip(s) == IF s # <<>> /\ Head(s) = Space THEN LStrip(Tail(s)) ELSE s

RECURSIVE RStrip(_)
RStrip(s) ==
    IF s # <<>> /\ s[Len(s)] = Space THEN RStrip(SubSeq(s, 1, Len(s) - 1)) ELSE s

\* str.strip()
Strip(s) == RStrip(LStrip(s))

\* str.encode(): the UTF-8 bytes of one code point
Utf8Char(cp) ==
    IF cp < 128 THEN << cp >>
    ELSE IF cp < 2048 THEN << 192 + (cp \div 64), 128 + (cp % 64) >>
    ELSE << 224 + (cp \div 4096), 128 + ((cp \div 64) % 64), 128 + (cp % 64) >>

RECURSIVE Utf8Encode(_)
Utf8Encode(s) == IF s = <<>> THEN <<>> ELSE Utf8Char(Head(s)) \o Utf8Encode(Tail(s))

B64Alphabet ==
    << "A", "B", "C", "D", "E", "F", "G", "H", "I", "J", "K", "L", "M", "N", "O", "P",
       "Q", "R", "S", "T", "U", "V", "W", "X", "Y", "Z", "a", "b", "c", "d", "e", "f",
       "g", "h", "i", "j", "k", "l", "m", "n", "o", "p", "q", "r", "s", "t", "u", "v",
       "w", "x", "y", "z", "0", "1", "2", "3", "4", "5", "6", "7", "8", "9", "+", "/" >>

B64Char(sextet) == B64Alphabet[sextet + 1]

\* an encoder that drops a final group of fewer than three bytes
RECURSIVE B64EncodeWholeGroups(_)
B64EncodeWholeGroups(bytes) ==
    IF Len(bytes) < 3 THEN <<>>
    ELSE << B64Char(bytes[1] \div 4),
            B64Char((bytes[1] % 4) * 16 + (bytes[2] \div 16)),
            B64Char((bytes[2] % 16) * 4 + (bytes[3] \div 64)),
            B64Char(bytes[3] % 64) >>
         \o B64EncodeWholeGroups(SubSeq(bytes, 4, Len(bytes)))

\* base64.b64encode(bytes).decode(): three bytes give four characters, a
\* final group of one or two bytes is padded with "="
RECURSIVE B64Encode(_)
B64Encode(bytes) ==
    IF Len(bytes) = 0 THEN <<>>
    ELSE IF Len(bytes) = 1
    THEN << B64Char(bytes[1] \div 4), B64Char((bytes[1] % 4) * 16), "=", "=" >>
    ELSE IF Len(bytes) = 2
    THEN << B64Char(bytes[1] \div 4),
            B64Char((bytes[1] % 4) * 16 + (bytes[2] \div 16)),
            B64Char((bytes[2] % 16) * 4), "=" >>
    ELSE << B64Char(bytes[1] \div 4),
            B64Char((bytes[1] % 4) * 16 + (bytes[2] \div 16)),
            B64Char((bytes[2] % 16) * 4 + (bytes[3] \div 64)),
            B64Char(bytes[3] % 64) >>
         \o B64Encode(SubSeq(bytes, 4, Len(bytes)))

\* the anchor element: its href is the data URI, `download` the file name
get_text_download_link(text, filename) ==
    [ scheme   |-> "data:file/txt;base64,",
      b64      |-> B64Encode(Utf8Encode(text)),
      download |-> filename,
      label    |-> "Download Report" ]

\* f"{ticker}_financial_report.txt"
ReportFilename(tk) == tk \o << "_financial_report.txt" >>

----------------------------------------------------------------------------
(* The completion API and the two report composers *)

\* what client.chat.completions.create does: it raises, or it answers with
\* a text (the composer strips it)
ApiOutcomes ==
    { [raises |-> TRUE, content |-> <<>>] }
    \cup { [raises |-> FALSE, content |-> c] : c \in Contents }

\* how the API ended the requests it was sent
ApiResponse(requests, outcome) ==
    [i \in 1..Len(requests) |-> IF outcome.raises THEN "raised" ELSE "answered"]

\* the names of the dict's keys in insertion order
RECURSIVE KeysInOrder(_, _)
KeysInOrder(ratios, i) ==
    IF i > Len(RatioBlocks) THEN <<>>
    ELSE (IF RatioBlocks[i].name \in DOMAIN ratios THEN << RatioBlocks[i].name >> ELSE <<>>)
         \o KeysInOrder(ratios, i + 1)

RatioRequest(tk, ratios) ==
    [ model |-> "gpt-3.5-turbo", max_tokens |-> 500, temperature |-> "0.7",
      ticker |-> tk, ratio_names |-> KeysInOrder(ratios, 1) ]

FallbackRequest(tk) ==
    [ model |-> "gpt-4o", max_tokens |-> 2048, temperature |-> "1.0",
      ticker |-> tk, ratio_names |-> <<>> ]

\* a composer whose handler returns None without a message
ComposeSilent(request, outcome) ==
    [ requests |-> << request >>,
      errors   |-> <<>>,
      result   |-> IF outcome.raises THEN <<>> ELSE << Strip(outcome.content) >> ]

\* the try/except around the completion call, shared by both composers:
\* an exception becomes an st.error and None
Compose(request, outcome) ==
    IF outcome.raises
    THEN [ requests |-> << request >>,
           errors   |-> << "error: Error generating financial report" >>,
           result   |-> <<>> ]
    ELSE [ requests |-> << request >>,
           errors   |-> <<>>,
           result   |-> << Strip(outcome.content) >> ]

generate_financial_report(tk, ratios, outcome) ==
    IF DOMAIN ratios = {}
    THEN [ requests |-> <<>>,
           errors   |-> << "error: No financial ratios available to generate the report." >>,
           result   |-> <<>> ]
    ELSE Compose(RatioRequest(tk, ratios), outcome)

generate_report_with_available_data(tk, outcome) == Compose(FallbackRequest(tk), outcome)

----------------------------------------------------------------------------
(* main(): the branches of the page.  The sidebar text, the raw statement   *)
(* tables (lines 160-166) and the ratio table (line 170) are display only.  *)

\* a page that analyzes whatever the input holds
TickerGivenAlways(tk) == TRUE

\* `if ticker:`
TickerGiven(tk) == tk # <<>>

\* a branch that never takes the fallback path
RatiosAvailableAlways(ratios) == TRUE

\* `if analyzer.financial_ratios:`
RatiosAvailable(ratios) == DOMAIN ratios # {}

\* `if report:` on None or a str
ReportTruthy(r) == r # <<>> /\ r[1] # <<>>

\* lines 174-179: the report of the ratio-grounded path and its download link
RenderRatioReport(r, tk) ==
    IF ReportTruthy(r)
    THEN [ messages |-> <<>>, shown |-> r,
           link |-> << get_text_download_link(r[1], ReportFilename(tk)) >> ]
    ELSE [ messages |-> << "error: Failed to generate financial report." >>,
           shown |-> <<>>, link |-> <<>> ]

\* lines 186-190: the report of the fallback path
RenderFallbackReport(r, tk) ==
    IF ReportTruthy(r)
    THEN [ messages |-> <<>>, shown |-> r, link |-> <<>> ]
    ELSE [ messages |-> << "error: Unable to generate report due to insufficient data." >>,
           shown |-> <<>>, link |-> <<>> ]

----------------------------------------------------------------------------
(* The state machine *)

\* a render starts at the top of main(), after the module-level client set-up
Init ==
    /\ pc = "main"
    /\ ticker = <<>>
    /\ income_stmt = NoneFrame
    /\ balance_sheet = NoneFrame
    /\ cash_flow = NoneFrame
    /\ financial_ratios = <<>>
    /\ messages = <<>>
    /\ missing_data = <<>>
    /\ warned = <<>>
    /\ calls = <<>>
    /\ api_requests = <<>>
    /\ api_responses = <<>>
    /\ report = <<>>
    /\ shown_report = <<>>
    /\ download_link = <<>>

\* lines 147-152: the ticker is read and upper-cased; a non-empty one builds
\* the FinancialAnalyzer, an empty one ends the render
TextInput ==
    /\ pc = "main"
    /\ \E raw \in TickerInputs :
         /\ ticker' = Upper(raw)
         /\ IF TickerGiven(Upper(raw))
            THEN /\ pc' = "fetch"
                 /\ calls' = Append(calls, "FinancialAnalyzer")
            ELSE /\ pc' = "done"
                 /\ calls' = calls
    /\ UNCHANGED << income_stmt, balance_sheet, cash_flow, financial_ratios, messages,
                    missing_data, warned, api_requests, api_responses, report,
                    shown_report, download_link >>

\* lines 32-37 and 153: the provider returns the three statements
FetchSucceeds ==
    /\ pc = "fetch"
    /\ \E inc \in Frames(IncomeLabels), bal \in Frames(BalanceLabels) :
         /\ income_stmt' = inc
         /\ balance_sheet' = bal
    /\ cash_flow' = CashFlowFrame
    /\ calls' = Append(calls, "fetch_financial_statements")
    /\ pc' = "calc"
    /\ UNCHANGED << ticker, financial_ratios, messages, missing_data, warned,
                    api_requests, api_responses, report, shown_report,
                    download_link >>

\* a fetch whose handler reports the error but still returns True
FetchFailsReturnsTrue ==
    /\ pc = "fetch"
    /\ calls' = Append(calls, "fetch_financial_statements")
    /\ messages' = Append(messages, "error: Error fetching financial statements")
    /\ pc' = "calc"
    /\ UNCHANGED << ticker, income_stmt, balance_sheet, cash_flow, financial_ratios,
                    missing_data, warned, api_requests, api_responses, report,
                    shown_report, download_link >>

\* lines 33-40 and 191-192: one of the three reads of the provider raises;
\* the statements read before it stay on the analyzer, the method shows the
\* error and returns False, and main shows its own error and ends
FetchFails ==
    /\ pc = "fetch"
    /\ \E failing \in 1..3 :
         /\ income_stmt' \in IF failing > 1 THEN Frames(IncomeLabels) ELSE {income_stmt}
         /\ balance_sheet' \in IF failing > 2 THEN Frames(BalanceLabels) ELSE {balance_sheet}
    /\ calls' = Append(calls, "fetch_financial_statements")
    /\ messages' = messages \o
         << "error: Error fetching financial statements",
            "error: Failed to fetch data. Please check the ticker symbol and try again." >>
    /\ pc' = "done"
    /\ UNCHANGED << ticker, cash_flow, financial_ratios, missing_data, warned,
                    api_requests, api_responses, report, shown_report,
                    download_link >>

\* the messages of calculate_financial_ratios (lines 71-75)
CalcMessages(c) ==
    (IF c.warning # <<>>
     THEN << "warning: Unable to calculate the following ratios due to missing data" >>
     ELSE <<>>)
    \o (IF c.error THEN << "error: Error calculating financial ratios" >> ELSE <<>>)

\* the messages of the branch taken at line 156 (lines 157 and 181-182)
BranchMessages(ratios) ==
    IF RatiosAvailable(ratios)
    THEN << "success: Data fetched and ratios calculated." >>
    ELSE << "error: Financial ratios could not be calculated.",
            "info: Generating report based on available financial data." >>

\* the position main() reaches after the method: the report of the branch it
\* takes at line 156; an exception leaving the method would end the script
AfterCalc(c) ==
    IF c.propagated # "none" THEN "crashed"
    ELSE IF RatiosAvailable(c.ratios) THEN "report_ratio"
    ELSE "report_fallback"

\* lines 154-170 and 181-182: the ratios are computed and main picks the
\* report path
CalculateFinancialRatios ==
    /\ pc = "calc"
    /\ \E c \in { calculate_financial_ratios(financial_ratios, income_stmt,
                                                balance_sheet) } :
           /\ financial_ratios' = c.ratios
           /\ missing_data' = c.missing_data
           /\ warned' = c.warning
           /\ pc' = AfterCalc(c)
           /\ messages' = messages \o CalcMessages(c)
                          \o (IF c.propagated # "none" THEN <<>>
                              ELSE BranchMessages(c.ratios))
    /\ calls' = Append(calls, "calculate_financial_ratios")
    /\ UNCHANGED << ticker, income_stmt, balance_sheet, cash_flow, api_requests,
                    api_responses, report, shown_report, download_link >>

\* lines 172-179: the ratio-grounded report
GenerateFinancialReport ==
    /\ pc = "report_ratio"
    /\ \E outcome \in ApiOutcomes :
         LET g == generate_financial_report(ticker, financial_ratios, outcome)
             v == RenderRatioReport(g.result, ticker)
         IN  /\ api_requests' = api_requests \o g.requests
             /\ api_responses' = api_responses \o ApiResponse(g.requests, outcome)
             /\ report' = g.result
             /\ messages' = messages \o g.errors \o v.messages
             /\ shown_report' = v.shown
             /\ download_link' = v.link
    /\ calls' = Append(calls, "generate_financial_report")
    /\ pc' = "done"
    /\ UNCHANGED << ticker, income_stmt, balance_sheet, cash_flow, financial_ratios,
                    missing_data, warned >>

\* lines 184-190: the fallback report
GenerateReportWithAvailableData ==
    /\ pc = "report_fallback"
    /\ \E outcome \in ApiOutcomes :
         LET g == generate_report_with_available_data(ticker, outcome)
             v == RenderFallbackReport(g.result, ticker)
         IN  /\ api_requests' = api_requests \o g.requests
             /\ api_responses' = api_responses \o ApiResponse(g.requests, outcome)
             /\ report' = g.result
             /\ messages' = messages \o g.errors \o v.messages
             /\ shown_report' = v.shown
             /\ download_link' = v.link
    /\ calls' = Append(calls, "generate_report_with_available_data")
    /\ pc' = "done"
    /\ UNCHANGED << ticker, income_stmt, balance_sheet, cash_flow, financial_ratios,
                    missing_data, warned >>

\* the next interaction runs the script again from the top with fresh state
Rerun ==
    /\ pc = "done"
    /\ pc' = "main"
    /\ ticker' = <<>>
    /\ income_stmt' = NoneFrame
    /\ balance_sheet' = NoneFrame
    /\ cash_flow' = NoneFrame
    /\ financial_ratios' = <<>>
    /\ messages' = <<>>
    /\ missing_data' = <<>>
    /\ warned' = <<>>
    /\ calls' = <<>>
    /\ api_requests' = <<>>
    /\ api_responses' = <<>>
    /\ report' = <<>>
    /\ shown_report' = <<>>
    /\ download_link' = <<>>

Next ==
    \/ TextInput
    \/ FetchSucceeds
    \/ FetchFails
    \/ CalculateFinancialRatios
    \/ GenerateFinancialReport
    \/ GenerateReportWithAvailableData
    \/ Rerun

Spec == Init /\ [][Next]_vars

----------------------------------------------------------------------------
(* Vocabulary of the properties *)

Range(s) == { s[i] : i \in 1..Len(s) }

Count(s, x) == Cardinality({ i \in 1..Len(s) : s[i] = x })

IsPrefix(s, t) == Len(s) <= Len(t) /\ s = SubSeq(t, 1, Len(s))

\* fetch_financial_statements returned True: its last read was stored
FetchSucceeded == cash_flow # NoneFrame

CalcReturned == "calculate_financial_ratios" \in Range(calls)

RenderEnded == pc \in {"done", "crashed"}

ReportPathNames == {"generate_financial_report", "generate_report_with_available_data"}

\* the report-generation paths the render has invoked, in order
ReportPaths == SelectSeq(calls, LAMBDA c : c \in ReportPathNames)

StmtOf(block) == IF block.stmt = "income_stmt" THEN income_stmt ELSE balance_sheet

\* the row of a label exists in the statement
RowPresent(frame, label) == label \in DOMAIN frame.rows

\* the line item has a number in the most recent period
ItemPresent(frame, label) == RowPresent(frame, label) /\ frame.rows[label][1] # NoneCell

RowsPresent(block) ==
    RowPresent(StmtOf(block), block.num) /\ RowPresent(StmtOf(block), block.den)

ItemsPresent(block) ==
    ItemPresent(StmtOf(block), block.num) /\ ItemPresent(StmtOf(block), block.den)

Numerator(block) == StmtOf(block).rows[block.num][1]
Denominator(block) == StmtOf(block).rows[block.den][1]

Blocks == Range(RatioBlocks)

----------------------------------------------------------------------------
\* C1: once the fetch has succeeded, a render invokes exactly one report path:
\* never two, and when it has ended exactly the fallback path if
\* financial_ratios is empty and exactly the ratio-grounded path otherwise.
C1_ExactlyOneReportPath ==
    /\ Len(ReportPaths) <= 1
    /\ (RenderEnded /\ FetchSucceeded) =>
         ReportPaths = IF DOMAIN financial_ratios = {}
                       THEN << "generate_report_with_available_data" >>
                       ELSE << "generate_financial_report" >>

\* a render that ended on the fallback path with every required row missing
C1_Witness ==
    /\ pc = "done"
    /\ FetchSucceeded
    /\ \A b \in Blocks : ~RowsPresent(b)
    /\ ReportPaths = << "generate_report_with_available_data" >>

\* C2: after calculate_financial_ratios, every ratio with a missing required
\* row is no key of financial_ratios and is named exactly once in the missing
\* list, and every other ratio with both rows present is stored.
C2_MissingRowIsolated ==
    CalcReturned =>
        \A b \in Blocks :
            ~RowsPresent(b) =>
                /\ b.name \notin DOMAIN financial_ratios
                /\ Count(missing_data, b.name) = 1
                /\ \A o \in Blocks \ {b} :
                       RowsPresent(o) => o.name \in DOMAIN financial_ratios

\* C3: after calculate_financial_ratios on a fresh analyzer, a ratio is a key
\* of financial_ratios exactly when both its line items are present in the
\* most recent period and its denominator is not zero.
C3_EntryIffComputable ==
    CalcReturned =>
        \A b \in Blocks :
            b.name \in DOMAIN financial_ratios
                <=> (ItemsPresent(b) /\ Denominator(b) # 0)

\* the value v is the quotient n / d
IsQuotient(v, n, d) == v.kind = "finite" /\ v.den # 0 /\ v.num * d = v.den * n

AllComputable == \A b \in Blocks : ItemsPresent(b) /\ Denominator(b) # 0

----------------------------------------------------------------------------
(* What the user sees, and the states of a request *)

FetchFailedShown ==
    "error: Failed to fetch data. Please check the ticker symbol and try again."
        \in Range(messages)

ReportShown == shown_report # <<>>

ReportFailedShown ==
    \/ "error: Failed to generate financial report." \in Range(messages)
    \/ "error: Unable to generate report due to insufficient data." \in Range(messages)

\* the state of the request in the spec's state machine
RequestState ==
    CASE pc = "main"            -> "Idle"
      [] pc = "fetch"           -> "Fetching"
      [] pc = "calc"            -> "Fetched"
      [] pc = "report_ratio"    -> "RatiosComputed"
      [] pc = "report_fallback" -> "FallbackReportAttempt"
      [] pc = "done" /\ ticker = <<>>                     -> "Idle"
      [] pc = "done" /\ ticker # <<>> /\ FetchFailedShown -> "FetchFailed"
      [] pc = "done" /\ ticker # <<>> /\ ~FetchFailedShown /\ ReportShown
                                                          -> "ReportGenerated"
      [] pc = "done" /\ ticker # <<>> /\ ~FetchFailedShown /\ ~ReportShown
            /\ ReportFailedShown                          -> "ReportFailed"
      [] OTHER                  -> "Unknown"

RequestTransitions ==
    { << "Idle", "Fetching" >>,
      << "Fetching", "FetchFailed" >>,
      << "Fetching", "Fetched" >>,
      << "Fetched", "RatiosComputed" >>,
      << "Fetched", "FallbackReportAttempt" >>,
      << "RatiosComputed", "ReportGenerated" >>,
      << "RatiosComputed", "ReportFailed" >>,
      << "FallbackReportAttempt", "ReportGenerated" >>,
      << "FallbackReportAttempt", "ReportFailed" >> }

TerminalStates == {"FetchFailed", "ReportGenerated", "ReportFailed"}

\* the calls of a complete request, by report path
RatioRun ==
    << "FinancialAnalyzer", "fetch_financial_statements",
       "calculate_financial_ratios", "generate_financial_report" >>

FallbackRun ==
    << "FinancialAnalyzer", "fetch_financial_statements",
       "calculate_financial_ratios", "generate_report_with_available_data" >>

\* every step of a request with a ticker is a transition of the state machine
RequestStep ==
    ticker' # <<>> => << RequestState, RequestState' >> \in RequestTransitions

\* a request that has not ended has a next step to take once its call returns
RequestProceeds == (ticker # <<>> /\ pc # "done") => ENABLED Next

\* the fetch is first and single, the completion API is called at most once
\* and only by a report path that follows the ratio computation, and a
\* failed fetch shows an error and ends the request before either
RequestOrder ==
    /\ IsPrefix(calls, RatioRun) \/ IsPrefix(calls, FallbackRun)
    /\ Len(api_requests) <= 1
    /\ api_requests # <<>> => (FetchSucceeded /\ Len(calls) = 4)
    /\ CalcReturned => FetchSucceeded
    /\ (Len(calls) >= 2 /\ ~FetchSucceeded) =>
          (pc = "done" /\ FetchFailedShown /\ Len(calls) = 2 /\ api_requests = <<>>)
    /\ (pc = "done" /\ ticker # <<>>) =>
          /\ RequestState \in TerminalStates
          /\ Cardinality({ i \in 1..3 :
                << FetchFailedShown, ReportShown, ReportFailedShown >>[i] }) = 1

\* C5: a request with a ticker moves only along Idle -> Fetching ->
\* FetchFailed or Idle -> Fetching -> Fetched -> (RatiosComputed or
\* FallbackReportAttempt) -> (ReportGenerated or ReportFailed); the fetch is
\* single and first, a failed fetch shows an error and stops the request,
\* the completion API is called at most once and only after the ratios, and
\* the request is never stuck short of its end, where it is in exactly one
\* terminal state.
C5_RequestStateMachine ==
    /\ [][RequestStep]_vars
    /\ []RequestOrder
    /\ []RequestProceeds

\* a request that ended with a failed report after the ratio computation
C5_Witness ==
    /\ RequestState = "ReportFailed"
    /\ calls = RatioRun
    /\ Len(api_requests) = 1

\* C6: whenever a report is shown, the same render offers a download link
\* for it named {TICKER}_financial_report.txt.
C6_ReportHasDownloadLink ==
    ReportShown =>
        /\ download_link # <<>>
        /\ download_link[1].download = ticker \o << "_financial_report.txt" >>

----------------------------------------------------------------------------
(* The browser's side of the download: decoding the data URI *)

B64Index(c) == CHOOSE i \in 0..63 : B64Alphabet[i + 1] = c

\* base64 decoding; a malformed payload decodes to the byte 256
RECURSIVE B64Decode(_)
B64Decode(chars) ==
    IF Len(chars) = 0 THEN <<>>
    ELSE IF Len(chars) < 4 \/ chars[1] = "=" \/ chars[2] = "=" THEN << 256 >>
    ELSE LET a == B64Index(chars[1])
             b == B64Index(chars[2])
         IN  IF chars[3] = "="
             THEN IF chars[4] = "=" /\ Len(chars) = 4 /\ b % 16 = 0
                  THEN << a * 4 + (b \div 16) >> ELSE << 256 >>
             ELSE LET c == B64Index(chars[3])
                  IN  IF chars[4] = "="
                      THEN IF Len(chars) = 4 /\ c % 4 = 0
                           THEN << a * 4 + (b \div 16), (b % 16) * 16 + (c \div 4) >>
                           ELSE << 256 >>
                      ELSE << a * 4 + (b \div 16), (b % 16) * 16 + (c \div 4),
                              (c % 4) * 64 + B64Index(chars[4]) >>
                           \o B64Decode(SubSeq(chars, 5, Len(chars)))

\* UTF-8 decoding; malformed bytes decode to the code point -1
RECURSIVE Utf8Decode(_)
Utf8Decode(bytes) ==
    IF Len(bytes) = 0 THEN <<>>
    ELSE LET b == bytes[1]
             Cont(i) == Len(bytes) >= i /\ bytes[i] >= 128 /\ bytes[i] < 192
         IN  IF b < 128 THEN << b >> \o Utf8Decode(Tail(bytes))
             ELSE IF b >= 192 /\ b < 224 /\ Cont(2)
             THEN << (b - 192) * 64 + (bytes[2] - 128) >>
                  \o Utf8Decode(SubSeq(bytes, 3, Len(bytes)))
             ELSE IF b >= 224 /\ b < 240 /\ Cont(2) /\ Cont(3)
             THEN << (b - 224) * 4096 + (bytes[2] - 128) * 64 + (bytes[3] - 128) >>
                  \o Utf8Decode(SubSeq(bytes, 4, Len(bytes)))
             ELSE << 0 - 1 >>

\* C7: the payload of the download link, base64-decoded and read as UTF-8,
\* is the report text that the page displays.
C7_ExportRoundTrip ==
    download_link # <<>> =>
        /\ download_link[1].scheme = "data:file/txt;base64,"
        /\ ReportShown
        /\ \A i \in 1..Len(B64Decode(download_link[1].b64)) :
               B64Decode(download_link[1].b64)[i] \in 0..255
        /\ Utf8Decode(B64Decode(download_link[1].b64)) = shown_report[1]

\* a displayed report with a two-byte character whose bytes end in a padded
\* base64 group
C7_Witness ==
    /\ download_link # <<>>
    /\ 233 \in Range(shown_report[1])
    /\ download_link[1].b64[Len(download_link[1].b64)] = "="

\* C8: when the completion call raises, the composer reports an error and
\* returns None; main shows a failure message, no report and no link, and
\* the request ends after that single completion call.
C8_ApiFailureHandled ==
    "raised" \in Range(api_responses) =>
        /\ "error: Error generating financial report" \in Range(messages)
        /\ report = <<>>
        /\ ReportFailedShown
        /\ shown_report = <<>>
        /\ download_link = <<>>
        /\ Len(api_requests) = 1
        /\ pc = "done"

\* the completion call of the ratio-grounded mode raised
C8_Witness ==
    /\ api_responses = << "raised" >>
    /\ api_requests[1].model = "gpt-3.5-turbo"
    /\ pc = "done"

----------------------------------------------------------------------------
(* Failures of the division inside calculate_financial_ratios *)

\* the block's division fails: an operand is None, or Python numbers are
\* divided by zero
DivisionFails(b) ==
    /\ RowsPresent(b)
    /\ \/ Numerator(b) = NoneCell
       \/ Denominator(b) = NoneCell
       \/ Denominator(b) = 0 /\ StmtOf(b).dtype = "object"

SomeDivisionFails == \E b \in Blocks : DivisionFails(b)

\* C9 as stated: a failed division leaves calculate_financial_ratios as an
\* unhandled exception, so the request never reaches the report step.
C9_DivisionFailurePropagates ==
    (CalcReturned /\ SomeDivisionFails) =>
        /\ pc \notin {"report_ratio", "report_fallback"}
        /\ ReportPaths = <<>>

\* C9: a failed division is not recorded as missing data; the outer handler
\* of calculate_financial_ratios catches it and reports it, no warning is
\* given, and the request goes on to the report step.
C9_DivisionFailureCaught ==
    (CalcReturned /\ SomeDivisionFails) =>
        /\ \A b \in Blocks : DivisionFails(b) =>
               (b.name \notin Range(missing_data) /\ b.name \notin DOMAIN financial_ratios)
        /\ "error: Error calculating financial ratios" \in Range(messages)
        /\ warned = <<>>
        /\ pc \in {"report_ratio", "report_fallback", "done"}
        /\ pc = "done" => Len(ReportPaths) = 1

\* Python numbers divided by zero in the second ratio, after the first ratio
\* was stored, and the request reached the ratio-grounded report
C9_Witness ==
    /\ pc = "done"
    /\ GrossMargin \in DOMAIN financial_ratios
    /\ RowsPresent(RatioBlocks[2])
    /\ Denominator(RatioBlocks[2]) = 0
    /\ Numerator(RatioBlocks[2]) # NoneCell
    /\ balance_sheet.dtype = "object"
    /\ ReportPaths = << "generate_financial_report" >>

\* C10: with an empty ticker the render builds no analyzer, fetches nothing,
\* calls no API, shows no message and no report, and the UI stays Idle.
C10_EmptyTickerIdle ==
    ticker = <<>> =>
        /\ calls = <<>>
        /\ api_requests = <<>>
        /\ messages = <<>>
        /\ warned = <<>>
        /\ shown_report = <<>>
        /\ download_link = <<>>
        /\ income_stmt = NoneFrame /\ balance_sheet = NoneFrame
        /\ cash_flow = NoneFrame
        /\ RequestState = "Idle"

\* a render that ended on the empty ticker
C10_Witness == pc = "done" /\ ticker = <<>>

====
